---- MODULE Spec2Model ----
(***************************************************************************)
(* GenerateW3ACTTitleExport (w3act/dbc/generate/title_records.py): the     *)
(* title-level export job.  One job object carries the nine counters; run  *)
(* loads the three datasets, indexes collections and subjects, filters the *)
(* targets through the blocked / no-URL / capture / embargo gates, builds  *)
(* one record per eligible target, serialises the records as OAI-PMH XML   *)
(* and writes the document.                                                *)
(*                                                                         *)
(* Text values are sequences of string chunks, so that concatenation is    *)
(* \o; a 14-digit timestamp is a sequence of fourteen one-character        *)
(* chunks.  A dict is a function whose DOMAIN is its key set.  A local     *)
(* name is <<>> while unbound in the current iteration and <<v>> once      *)
(* bound to v.                                                             *)
(***************************************************************************)
EXTENDS Integers, Sequences, FiniteSets, TLC

\* ------------------------------------------------------------------ bounds
\* The longest list of targets one run loads, the number of times run is
\* invoked on the job object, and the number of targets it loads in all.
MaxTargets == 2
MaxRuns == 2
MaxLoaded == 3

\* ------------------------------------------------------- Python primitives
None == <<"<None>">>

HasKey(d, k) == k \in DOMAIN d

Get(d, k, default) == IF k \in DOMAIN d THEN d[k] ELSE default

Truthy(v) == v = TRUE

\* ---------------------------------------------------------------- datetime
DigitChars == <<"0", "1", "2", "3", "4", "5", "6", "7", "8", "9">>

DigitVal(c) == (CHOOSE k \in 1..10 : DigitChars[k] = c) - 1

RECURSIVE ParseInt(_)
ParseInt(s) ==
  IF s = <<>> THEN 0
  ELSE (10 * ParseInt(SubSeq(s, 1, Len(s) - 1))) + DigitVal(s[Len(s)])

Strptime(s) ==
  [year   |-> ParseInt(SubSeq(s, 1, 4)),
   month  |-> ParseInt(SubSeq(s, 5, 6)),
   day    |-> ParseInt(SubSeq(s, 7, 8)),
   hour   |-> ParseInt(SubSeq(s, 9, 10)),
   minute |-> ParseInt(SubSeq(s, 11, 12)),
   second |-> ParseInt(SubSeq(s, 13, 14))]

Pad2(n) == <<DigitChars[((n \div 10) % 10) + 1], DigitChars[(n % 10) + 1]>>

Pad4(n) == Pad2(n \div 100) \o Pad2(n % 100)

Isoformat(dt) ==
  Pad4(dt.year) \o <<"-">> \o Pad2(dt.month) \o <<"-">> \o Pad2(dt.day) \o <<"T">>
    \o Pad2(dt.hour) \o <<":">> \o Pad2(dt.minute) \o <<":">> \o Pad2(dt.second)

IsLeap(y) == (y % 4 = 0) /\ ((y % 100 # 0) \/ (y % 400 = 0))

DaysInMonth(y, m) ==
  IF m = 2 THEN (IF IsLeap(y) THEN 29 ELSE 28)
  ELSE IF m \in {4, 6, 9, 11} THEN 30 ELSE 31

RECURSIVE DaysBeforeMonth(_, _)
DaysBeforeMonth(y, m) ==
  IF m = 1 THEN 0 ELSE DaysBeforeMonth(y, m - 1) + DaysInMonth(y, m - 1)

DaysBeforeYear(y) ==
  ((y - 1) * 365) + ((y - 1) \div 4) - ((y - 1) \div 100) + ((y - 1) \div 400)

ToOrdinal(dt) == DaysBeforeYear(dt.year) + DaysBeforeMonth(dt.year, dt.month) + dt.day

SecondOfDay(dt) == (dt.hour * 3600) + (dt.minute * 60) + dt.second

\* datetime - datetime: the difference of the ordinals and of the seconds in the
\* day, normalised to a timedelta with 0 <= seconds < 86400.
Sub(a, b) ==
  LET d == ToOrdinal(a) - ToOrdinal(b)
      s == SecondOfDay(a) - SecondOfDay(b)
  IN  [days |-> d + (s \div 86400), seconds |-> (s % 86400)]

\* ------------------------------------------------------------ input domains
EmptyDict == [k \in {} |-> TRUE]

\* A dict entry that is present (o = <<v>>) or absent (o = <<>>).
OptField(k, o) == IF o = <<>> THEN EmptyDict ELSE (k :> o[1])

Title == <<"Example Site">>
UrlA == <<"http://www.example.co.uk/">>
UrlB == <<"http://news.example.org/page">>

MkTarget(cf, title, urls, oa, sids) ==
  ("crawl_frequency" :> cf) @@ ("isNPLD" :> TRUE) @@ OptField("title", title)
    @@ OptField("urls", urls) @@ OptField("isOA", oa) @@ OptField("subject_ids", sids)

\* The shapes a target of the loaded list can have: crawl_frequency and isNPLD
\* are always there; title, urls, isOA and subject_ids may each be absent.
Targets ==
  { MkTarget("NEVERCRAWL", <<Title>>, << <<UrlA>> >>, <<TRUE>>, << <<1>> >>),
    MkTarget("NEVERCRAWL", <<Title>>, << <<>> >>, <<>>, << <<>> >>),
    MkTarget("NEVERCRAWL", <<>>, << <<UrlA>> >>, <<FALSE>>, << <<1>> >>),
    MkTarget("DAILY", <<Title>>, << <<>> >>, <<FALSE>>, << <<1>> >>),
    MkTarget("DAILY", <<>>, <<>>, <<FALSE>>, <<>>),
    MkTarget("DAILY", <<>>, << <<UrlA>> >>, <<FALSE>>, << <<1>> >>),
    MkTarget("DAILY", <<Title>>, << <<UrlA>> >>, <<FALSE>>, <<>>),
    MkTarget("DAILY", <<Title>>, << <<UrlA>> >>, <<FALSE>>, << <<>> >>),
    MkTarget("DAILY", <<Title>>, << <<UrlA>> >>, <<FALSE>>, << <<2, 1>> >>),
    MkTarget("DAILY", <<Title>>, << <<UrlB, UrlA>> >>, <<FALSE>>, << <<3>> >>) }
  \cup {MkTarget("DAILY", <<Title>>, << <<UrlA>> >>, oa, << <<1>> >>) :
          oa \in {<<>>, <<FALSE>>, <<TRUE>>}}

\* Subject 1 appears twice (the later entry wins) and is not published;
\* no subject has id 2.
SubjectDatasets ==
  { << [id |-> 1, name |-> <<"History">>, publish |-> TRUE],
       [id |-> 1, name |-> <<"Politics">>, publish |-> FALSE],
       [id |-> 3, name |-> <<"Arts">>, publish |-> TRUE] >> }

\* The second dataset holds a collection with no publish flag.
CollectionDatasets ==
  { << [id |-> 10, publish |-> TRUE], [id |-> 11, publish |-> FALSE] >>,
    << [id |-> 10, publish |-> TRUE], ("id" :> 12), [id |-> 11, publish |-> TRUE] >> }

\* What CdxIndex().get_first_capture_date(url) can do: return a 14-digit
\* timestamp, return None, or raise.
Captures ==
  { <<"2","0","1","9","1","2","2","9","1","2","0","0","0","0">>,
    <<"2","0","1","9","1","2","2","8","1","2","0","0","0","1">>,
    <<"2","0","2","0","0","1","0","5","1","2","0","0","0","1">> }

CdxResults ==
  {[kind |-> "raise"], [kind |-> "none"]} \cup {[kind |-> "date", str |-> c] : c \in Captures}

\* The readings datetime.datetime.now() can give (2020-01-05 12:00:00 and :01).
NowChoices ==
  { [year |-> 2020, month |-> 1, day |-> 5, hour |-> 12, minute |-> 0, second |-> 0],
    [year |-> 2020, month |-> 1, day |-> 5, hour |-> 12, minute |-> 0, second |-> 1] }

\* now - strptime(capture), for every reading of the clock and every capture.
AgoTable == [now \in NowChoices, c \in Captures |-> Sub(now, Strptime(c))]

IsoTable == [c \in Captures |-> Isoformat(Strptime(c))]

\* ------------------------------------------------------------------- state
VARIABLES
  self,             \* the job object's nine counters
  pc,               \* where run is: idle, index_collections, index_subjects,
                    \* targets, write, done, failed
  error,            \* the exception that left run, "" when none
  runs,             \* run invocations on this job object so far
  loaded,           \* targets loaded by those invocations, in all
  collections,      \* loaded collections (until indexed)
  subjects,         \* loaded subjects (until indexed)
  subjects_by_id,
  i,                \* targets taken from the list by the for loop
  target,           \* loop variable
  url,
  wayback_date_str,
  ago,
  records,
  listRecords,      \* the record elements under OAI-PMH/ListRecords
  output,           \* the output file: <<>> when absent, else <<document>>
  tally             \* what this run alone has seen, per outcome

vars ==
  <<self, pc, error, runs, loaded, collections, subjects, subjects_by_id, i, target, url,
    wayback_date_str, ago, records, listRecords, output, tally>>

ZeroTally ==
  [blocked |-> 0, missing |-> 0, embargoed |-> 0, skipped |-> 0,
   collections_published |-> 0, subjects_published |-> 0]

Init ==
  /\ self = [record_count |-> 0, blocked_record_count |-> 0,
             missing_record_count |-> 0, embargoed_record_count |-> 0,
             target_count |-> 0, collection_count |-> 0,
             collection_published_count |-> 0, subject_count |-> 0,
             subject_published_count |-> 0]
  /\ pc = "idle"
  /\ error = ""
  /\ runs = 0
  /\ loaded = 0
  /\ collections = <<>>
  /\ subjects = <<>>
  /\ subjects_by_id = EmptyDict
  /\ i = 0
  /\ target = <<>>
  /\ url = <<>>
  /\ wayback_date_str = <<>>
  /\ ago = <<>>
  /\ records = <<>>
  /\ listRecords = <<>>
  /\ output = <<>>
  /\ tally = ZeroTally

\* ------------------------------------------------------- loading, indexing
\* run is entered: the three datasets are loaded and the three totals set.
\* The list of targets has n elements; the for loop draws each when it
\* reaches it.
Load ==
  /\ pc \in {"idle", "done", "failed"}
  /\ runs < MaxRuns
  /\ \E n \in 0..MaxTargets, cols \in CollectionDatasets, subs \in SubjectDatasets :
       /\ loaded + n <= MaxLoaded
       /\ loaded' = loaded + n
       /\ self' = [self EXCEPT !.target_count = n,
                               !.collection_count = Len(cols),
                               !.subject_count = Len(subs)]
       /\ collections' = cols
       /\ subjects' = subs
  /\ runs' = runs + 1
  /\ pc' = "index_collections"
  /\ error' = ""
  /\ subjects_by_id' = EmptyDict
  /\ i' = 0
  /\ target' = <<>>
  /\ url' = <<>>
  /\ wayback_date_str' = <<>>
  /\ ago' = <<>>
  /\ records' = <<>>
  /\ listRecords' = <<>>
  /\ tally' = ZeroTally
  /\ UNCHANGED output

\* The first element of seq without a publish key, 0 when every one has it.
FirstUnflagged(seq) ==
  IF \A j \in DOMAIN seq : HasKey(seq[j], "publish") THEN 0
  ELSE CHOOSE j \in DOMAIN seq :
         /\ ~HasKey(seq[j], "publish")
         /\ \A k \in 1..(j - 1) : HasKey(seq[k], "publish")

\* How many of the first n elements of seq are flagged publish.
CountPublished(seq, n) == Cardinality({j \in 1..n : Truthy(seq[j].publish)})

\* The dict the indexing loop builds from the first n elements: the last
\* element with an id wins.
IndexById(seq, n) ==
  [k \in {seq[j].id : j \in 1..n} |->
     seq[CHOOSE j \in 1..n : seq[j].id = k /\ \A m \in (j + 1)..n : seq[m].id # k]]

IndexCollections ==
  /\ pc = "index_collections"
  /\ LET bad == FirstUnflagged(collections)
         n   == IF bad = 0 THEN Len(collections) ELSE bad - 1
     IN  /\ self' = [self EXCEPT !.collection_published_count =
                                    @ + CountPublished(collections, n)]
         /\ tally' = [tally EXCEPT !.collections_published =
                                    CountPublished(collections, n)]
         /\ pc' = IF bad = 0 THEN "index_subjects" ELSE "failed"
         /\ error' = IF bad = 0 THEN "" ELSE "KeyError"
  /\ collections' = <<>>
  /\ UNCHANGED <<runs, loaded, subjects, subjects_by_id, i, target, url, wayback_date_str,
                 ago, records, listRecords, output>>

IndexSubjects ==
  /\ pc = "index_subjects"
  /\ subjects_by_id' = IndexById(subjects, Len(subjects))
  /\ self' = [self EXCEPT !.subject_published_count =
                             @ + CountPublished(subjects, Len(subjects))]
  /\ tally' = [tally EXCEPT !.subjects_published =
                             CountPublished(subjects, Len(subjects))]
  /\ subjects' = <<>>
  /\ pc' = "targets"
  /\ UNCHANGED <<error, runs, loaded, collections, i, target, url, wayback_date_str, ago,
                 records, listRecords, output>>

\* ------------------------------------------------------------ the for loop
Blocked(t) == t.crawl_frequency = "NEVERCRAWL"

NoUrls(t) == Len(Get(t, "urls", <<>>)) = 0

\* tldextract.extract(url).registered_domain
RegisteredDomain(u) ==
  CASE u = UrlA -> <<"example.co.uk">>
    [] u = UrlB -> <<"example.org">>

\* base64.b64encode(hashlib.md5(url.encode('utf-8')).digest())
Md5Base64(u) == <<"b64md5(">> \o u \o <<")">>

EmbargoDays == 7

Embargoed(td) == td.days <= EmbargoDays

Rights(t) ==
  IF Truthy(Get(t, "isOA", FALSE)) THEN <<"***Free access">>
  ELSE <<"***Available only in our Reading Rooms">>

\* The replay link built without regard to the licence.
WaybackUrlOneTier(t, ts, u) ==
  <<"https://bl.ldls.org.uk/welcome.html?">> \o ts \o <<"/">> \o u

WaybackUrl(t, ts, u) ==
  IF Truthy(Get(t, "isOA", FALSE))
  THEN <<"https://www.webarchive.org.uk/wayback/archive/">> \o ts \o <<"/">> \o u
  ELSE <<"https://bl.ldls.org.uk/welcome.html?">> \o ts \o <<"/">> \o u

BaseRecord(t, u, ts) ==
  [id          |-> ts \o <<"/">> \o Md5Base64(u),
   date        |-> IsoTable[ts],
   url         |-> u,
   title       |-> t.title,
   rights      |-> Rights(t),
   publisher   |-> RegisteredDomain(u),
   wayback_url |-> WaybackUrl(t, ts, u)]

\* "Add any collection": with a first subject id, rec['subject'] is set to the
\* name of the subject it resolves to, or to None.
WithSubject(rec, t, sbi) ==
  IF Len(t.subject_ids) > 0
  THEN rec @@ ("subject" :> Get(Get(sbi, t.subject_ids[1], EmptyDict), "name", None))
  ELSE rec

\* The record put at the head of the list instead of its end.
PrependRecord(recs, rec) == <<rec>> \o recs

AppendRecord(recs, rec) == Append(recs, rec)

\* The way one iteration leaves the loop body for target t, when the capture
\* lookup does cdx and the clock reads now.
Exit(t, cdx, now) ==
  IF Blocked(t) THEN (IF HasKey(t, "title") THEN "blocked" ELSE "KeyError")
  ELSE IF NoUrls(t) THEN "skipped"
  ELSE IF cdx.kind = "raise" THEN "CdxError"
  ELSE IF cdx.kind = "none" THEN "missing"
  ELSE IF Embargoed(AgoTable[now, cdx.str]) THEN "embargoed"
  ELSE IF ~HasKey(t, "title") THEN "KeyError"
  ELSE IF ~HasKey(t, "subject_ids") THEN "KeyError"
  ELSE "published"

Bump(x) ==
  CASE x = "blocked"   -> [self EXCEPT !.blocked_record_count = @ + 1]
    [] x = "missing"   -> [self EXCEPT !.missing_record_count = @ + 1]
    [] x = "embargoed" -> [self EXCEPT !.embargoed_record_count = @ + 1]
    [] x = "published" -> [self EXCEPT !.record_count = @ + 1]
    [] OTHER           -> self

\* One pass through the loop body for target t.
Iterate(t, cdx, now) ==
  LET x       == Exit(t, cdx, now)
      looked  == ~Blocked(t) /\ ~NoUrls(t)
      found   == looked /\ cdx.kind = "date"
  IN  /\ target' = <<t>>
      /\ url' = IF looked THEN <<t.urls[1]>> ELSE <<>>
      /\ wayback_date_str' =
           IF found THEN <<cdx.str>>
           ELSE IF looked /\ cdx.kind = "none" THEN <<None>> ELSE <<>>
      /\ ago' = IF found THEN <<AgoTable[now, cdx.str]>> ELSE <<>>
      /\ records' =
           IF x = "published"
           THEN AppendRecord(records,
                  WithSubject(BaseRecord(t, t.urls[1], cdx.str), t, subjects_by_id))
           ELSE records
      /\ self' = Bump(x)
      /\ tally' = IF x \in {"blocked", "missing", "embargoed", "skipped"}
                  THEN [tally EXCEPT ![x] = @ + 1] ELSE tally
      /\ pc' = IF x \in {"KeyError", "CdxError"} THEN "failed" ELSE "targets"
      /\ error' = IF x \in {"KeyError", "CdxError"} THEN x ELSE ""

\* The lookup is made only for a target that is not blocked and has a URL, and
\* the clock is read only when the lookup returned a timestamp.
NotCalled == [kind |-> "uncalled"]

NotRead == [year |-> 0, month |-> 0, day |-> 0, hour |-> 0, minute |-> 0, second |-> 0]

ProcessTarget ==
  /\ pc = "targets"
  /\ i < self.target_count
  /\ \E t \in Targets :
       IF Blocked(t) \/ NoUrls(t) THEN Iterate(t, NotCalled, NotRead)
       ELSE \E cdx \in CdxResults :
              IF cdx.kind = "date" THEN \E now \in NowChoices : Iterate(t, cdx, now)
              ELSE Iterate(t, cdx, NotRead)
  /\ i' = i + 1
  /\ UNCHANGED <<runs, loaded, collections, subjects, subjects_by_id, listRecords, output>>

\* ------------------------------------------------------------ serialisation
DcChildren(rec) ==
  << <<"dc:source", rec.url>>, <<"dc:publisher", rec.publisher>>,
     <<"dc:title", rec.title>>, <<"dc:date", rec.date>>,
     <<"dc:rights", rec.rights>>, <<"xlink:href", rec.wayback_url>> >>
  \o (IF HasKey(rec, "subject") THEN << <<"dc:subject", rec.subject>> >> ELSE <<>>)

RecordElement(rec) ==
  [header |-> [identifier |-> rec.id], metadata |-> [dc |-> DcChildren(rec)]]

\* for rec in records: one record SubElement each, appended under ListRecords.
RECURSIVE SerializeRecords(_)
SerializeRecords(recs) ==
  IF recs = <<>> THEN <<>>
  ELSE Append(SerializeRecords(SubSeq(recs, 1, Len(recs) - 1)),
              RecordElement(recs[Len(recs)]))

Serialize ==
  /\ pc = "targets"
  /\ i = self.target_count
  /\ listRecords' = SerializeRecords(records)
  /\ pc' = "write"
  /\ UNCHANGED <<self, error, runs, loaded, collections, subjects, subjects_by_id, i, target,
                 url, wayback_date_str, ago, records, output, tally>>

Document(lr) ==
  [root |-> "OAI-PMH", nsmap |-> {"", "oai_dc", "dc", "xlink"}, encoding |-> "UTF-8",
   ListRecords |-> lr]

\* The document written from inside the loop, with the records built so far.
WriteOutputInLoop ==
  /\ pc = "targets"
  /\ i < self.target_count
  /\ output' = <<Document(SerializeRecords(records))>>
  /\ UNCHANGED <<self, pc, error, runs, loaded, loaded, collections, subjects, subjects_by_id, i,
                 target, url, wayback_date_str, ago, records, listRecords, tally>>

WriteOutput ==
  /\ pc = "write"
  /\ output' = <<Document(listRecords)>>
  /\ pc' = "done"
  /\ UNCHANGED <<self, error, runs, loaded, collections, subjects, subjects_by_id, i, target,
                 url, wayback_date_str, ago, records, listRecords, tally>>

Next ==
  \/ Load
  \/ IndexCollections
  \/ IndexSubjects
  \/ ProcessTarget
  \/ Serialize
  \/ WriteOutput

Spec == Init /\ [][Next]_vars

\* ------------------------------------------------------------- properties
Last(seq) == seq[Len(seq)]

\* C1: when run completes, the five outcomes partition the targets:
\* record_count + blocked_record_count + missing_record_count +
\* embargoed_record_count + (targets skipped for having no URL) = target_count,
\* and one target advances at most one of the counts.
C1_OutcomesPartitionTargets ==
  [][ /\ (pc' = "done" =>
            self'.record_count + self'.blocked_record_count
              + self'.missing_record_count + self'.embargoed_record_count
              + tally'.skipped = self'.target_count)
      /\ (i' = i + 1 =>
            (self'.record_count - self.record_count)
              + (self'.blocked_record_count - self.blocked_record_count)
              + (self'.missing_record_count - self.missing_record_count)
              + (self'.embargoed_record_count - self.embargoed_record_count)
              + (tally'.skipped - tally.skipped) <= 1) ]_vars

\* C2: a target whose first capture is 7 days or less before now is counted as
\* embargoed and yields no record; one captured exactly 7 days and 1 second
\* before now yields a record and is not counted as embargoed.
C2_EmbargoBoundary ==
  [][ (i' = i + 1 /\ ago' # <<>>) =>
        LET t == target'[1]
            s == (ago'[1].days * 86400) + ago'[1].seconds
        IN  /\ (s <= 7 * 86400 =>
                  /\ self'.embargoed_record_count = self.embargoed_record_count + 1
                  /\ records' = records)
            /\ ((s = (7 * 86400) + 1 /\ HasKey(t, "title")
                   /\ HasKey(t, "subject_ids")) =>
                  /\ self'.embargoed_record_count = self.embargoed_record_count
                  /\ Len(records') = Len(records) + 1) ]_vars

\* C3: when the capture lookup raises, the target is counted as missing, no
\* record is built, the loop goes on and no exception leaves run.
C3_LookupErrorIsNotFound ==
  [][ (i' = i + 1 /\ url' # <<>> /\ wayback_date_str' = <<>>) =>
        /\ self'.missing_record_count = self.missing_record_count + 1
        /\ records' = records
        /\ pc' = "targets"
        /\ error' = "" ]_vars

\* C4: a target without title, urls or subject_ids never aborts run: one
\* without title yields no record, one without subject_ids is handled as having
\* no subject, and the loop goes on.
C4_MissingFieldNeverAborts ==
  [][ (i' = i + 1 /\ (\E k \in {"title", "urls", "subject_ids"} :
                         ~HasKey(target'[1], k))) =>
        /\ error' # "KeyError"
        /\ (~HasKey(target'[1], "title") => records' = records)
        /\ ((~HasKey(target'[1], "subject_ids") /\ records' # records) =>
              ~HasKey(Last(records'), "subject")) ]_vars

\* C5: a record has a subject field exactly when its target has a first
\* subject id that resolves in subjects_by_id, and then the field is that
\* subject's name; otherwise the record has no subject field and its
\* serialised form has no dc:subject element.
C5_SubjectIffResolved ==
  [][ /\ (i' = i + 1 /\ Len(records') = Len(records) + 1) =>
           LET t == target'[1]
               r == Last(records')
               resolves == /\ Len(t.subject_ids) > 0
                           /\ t.subject_ids[1] \in DOMAIN subjects_by_id
           IN  /\ HasKey(r, "subject") <=> resolves
               /\ resolves => r.subject = subjects_by_id[t.subject_ids[1]].name
      /\ pc' = "write" =>
           \A k \in DOMAIN listRecords' :
             \A c \in DOMAIN listRecords'[k].metadata.dc :
               listRecords'[k].metadata.dc[c][1] = "dc:subject" =>
                 /\ HasKey(records[k], "subject")
                 /\ listRecords'[k].metadata.dc[c][2] # None ]_vars

\* C6: the counters are reset at run start: when run is done they hold what
\* that run alone counted.
C6_CountersScopedToRun ==
  pc = "done" =>
    /\ self.record_count = Len(records)
    /\ self.blocked_record_count = tally.blocked
    /\ self.missing_record_count = tally.missing
    /\ self.embargoed_record_count = tally.embargoed
    /\ self.collection_published_count = tally.collections_published
    /\ self.subject_published_count = tally.subjects_published

\* C7: the gates are tried in the order blocked, no URL, no capture, embargo,
\* and the first that matches decides alone: a NEVERCRAWL target yields no
\* record and adds exactly one to blocked_record_count; a target with no URL
\* yields no record and changes none of the blocked, missing and embargoed
\* counts; a target with a URL and no capture adds one to missing_record_count
\* only.
C7_FirstGateDecides ==
  [][ i' = i + 1 =>
        LET t == target'[1]
            blocked == t.crawl_frequency = "NEVERCRAWL"
            nourl   == Len(Get(t, "urls", <<>>)) = 0
            same(c) == self'[c] = self[c]
            plus(c) == self'[c] = self[c] + 1
        IN  /\ blocked =>
                 /\ records' = records
                 /\ plus("blocked_record_count")
                 /\ same("missing_record_count")
                 /\ same("embargoed_record_count")
            /\ (~blocked /\ nourl) =>
                 /\ records' = records
                 /\ same("blocked_record_count")
                 /\ same("missing_record_count")
                 /\ same("embargoed_record_count")
            /\ (~blocked /\ ~nourl /\ wayback_date_str' = <<None>>) =>
                 /\ records' = records
                 /\ same("blocked_record_count")
                 /\ plus("missing_record_count")
                 /\ same("embargoed_record_count") ]_vars

\* C8: records are appended in the order of their targets and never reordered;
\* each record is built from the one target of its iteration, which is not
\* blocked, has a URL, has a known capture and is past the embargo; and
\* ListRecords holds one record element per record, in the same order.
C8_RecordsInTargetOrder ==
  [][ /\ i' = i + 1 =>
           \/ records' = records
           \/ /\ Len(records') = Len(records) + 1
              /\ SubSeq(records', 1, Len(records)) = records
              /\ LET t == target'[1]
                     r == Last(records')
                 IN  /\ t.crawl_frequency # "NEVERCRAWL"
                     /\ Len(Get(t, "urls", <<>>)) > 0
                     /\ r.url = t.urls[1]
                     /\ r.title = t.title
                     /\ wayback_date_str' \notin {<<>>, <<None>>}
                     /\ SubSeq(r.id, 1, 14) = wayback_date_str'[1]
                     /\ ago' # <<>>
                     /\ (ago'[1].days * 86400) + ago'[1].seconds
                          > 7 * 86400
      /\ (i' = i /\ pc' # "index_collections") => records' = records
      /\ pc' = "write" =>
           /\ Len(listRecords') = Len(records)
           /\ \A k \in DOMAIN records :
                /\ listRecords'[k].header.identifier = records[k].id
                /\ listRecords'[k].metadata.dc[1] = <<"dc:source", records[k].url>>
      /\ output' # output => output'[1].ListRecords = listRecords ]_vars

C8_Witness ==
  /\ pc = "done"
  /\ Len(records) = 2
  /\ records[1].url # records[2].url
  /\ Len(output[1].ListRecords) = 2
  /\ output[1].ListRecords[1].header.identifier = records[1].id
  /\ output[1].ListRecords[2].header.identifier = records[2].id

\* C9: the output is written only after every target has been processed and
\* every record serialised; a run that aborts leaves the output as it was.
C9_OutputOnlyWhenComplete ==
  [][ /\ output' # output =>
           /\ pc = "write"
           /\ i = self.target_count
           /\ Len(listRecords) = Len(records)
           /\ output' = <<Document(listRecords)>>
           /\ pc' = "done"
      /\ pc' = "failed" => output' = output ]_vars

C9_Witness ==
  /\ pc = "failed"
  /\ error = "KeyError"
  /\ i = 2
  /\ Len(records) = 1
  /\ output = <<>>

\* C10: a record of an open-access target has rights '***Free access' and a
\* wayback_url made of the public replay prefix, the 14-digit timestamp, '/'
\* and the canonical URL; any other record has rights '***Available only in
\* our Reading Rooms' and the restricted prefix before the same timestamp, '/'
\* and URL.
C10_AccessTier ==
  [][ (i' = i + 1 /\ Len(records') = Len(records) + 1) =>
        LET t  == target'[1]
            r  == Last(records')
            ts == wayback_date_str'[1]
            u  == t.urls[1]
        IN  /\ Len(ts) = 14
            /\ IF HasKey(t, "isOA") /\ t.isOA = TRUE
               THEN /\ r.rights = <<"***Free access">>
                    /\ r.wayback_url =
                         <<"https://www.webarchive.org.uk/wayback/archive/">>
                           \o ts \o <<"/">> \o u
               ELSE /\ r.rights = <<"***Available only in our Reading Rooms">>
                    /\ r.wayback_url =
                         <<"https://bl.ldls.org.uk/welcome.html?">>
                           \o ts \o <<"/">> \o u ]_vars

C10_Witness ==
  /\ Len(records) = 2
  /\ records[1].rights = <<"***Free access">>
  /\ records[2].rights = <<"***Available only in our Reading Rooms">>
  /\ HasKey(target[1], "isOA") => ~target[1].isOA
====
